---- MODULE Spec2Model ----
(***************************************************************************)
(* Kenzies Fridge leaderboard backend (src/main.py): the JSON Document,    *)
(* the handlers update_user, record_trade, post_close_month, get_user and  *)
(* the other queries, the store (_read_db / _write_db) and the             *)
(* process-wide lock.                                                      *)
(*                                                                         *)
(* Conventions of the model                                                *)
(*   - money is counted in thousandths of a currency unit, so 5000.0 is    *)
(*     5000000 and round(x, 2) rounds to a multiple of 10;                 *)
(*   - Optional[T] is a sequence of length <= 1: None is << >>, a given    *)
(*     value v is <<v>>;                                                   *)
(*   - a str is a sequence of one-character strings;                       *)
(*   - datetime.utcnow() is the tick counter `now`; an ISO timestamp is    *)
(*     the tick it was taken at; a "%Y-%m" month key is <<year, month>>;   *)
(*   - a dict is a function plus, for users, the insertion order of its    *)
(*     keys (Python dicts and json keep it).                               *)
(*   - a provided number on which float() or int() raises is the           *)
(*     sequence NotANumber, of length 2;                                   *)
(*   - percentages are counted in hundredths of a percent, the minutes of  *)
(*     get_live_wins in ticks.                                             *)
(*                                                                         *)
(* Specifications: Spec (the handlers as atomic steps, from no backing     *)
(* file), PodiumSpec, CorruptSpec, EdgeSpec and QuerySpec (the same steps  *)
(* from other Documents or with further request bodies and queries),       *)
(* ConcSpec (two request threads, the steps of _write_db, crashes) and     *)
(* LiveSpec (the threads under fair scheduling).                           *)
(***************************************************************************)
EXTENDS Integers, Sequences, FiniteSets, TLC

(* ------------------------------ bounds -------------------------------- *)

\* number of requests served in one behaviour
MaxOps == 3
\* last tick of the clock
MaxTime == 1
\* clock ticks per calendar month
TicksPerMonth == 1
\* feed cap: 500 in the source (line 399), scaled so that the cap is reached
MAX_RECENT_TRADES == 2

(* ----------------------------- constants ------------------------------ *)

START_BALANCE == 5000000
NICK_MAX_LEN == 40
TOP_N == 3
\* get_leaderboard: arr[:max(0, min(limit, 1000))]
LEADERBOARD_MAX == 1000
\* get_live_wins: limit = min(limit, 500)
LIVE_LIMIT_MAX == 500

None == << >>
Some(v) == <<v>>

\* the calendar month of tick 0
StartDate == [year |-> 2026, month |-> 12]

(* ------------------------------ strings ------------------------------- *)

Whitespace == {" "}

RECURSIVE LStrip(_)
LStrip(s) == IF s # << >> /\ Head(s) \in Whitespace THEN LStrip(Tail(s)) ELSE s

RECURSIVE RStrip(_)
RStrip(s) ==
    IF s # << >> /\ s[Len(s)] \in Whitespace
    THEN RStrip(SubSeq(s, 1, Len(s) - 1))
    ELSE s

\* str.strip()
Strip(s) == RStrip(LStrip(s))

\* s[:n]
Prefix(s, n) == SubSeq(s, 1, IF Len(s) < n THEN Len(s) ELSE n)

\* (nickname or "").strip()[:40]
NormalizeNick(raw) == Prefix(Strip(raw), NICK_MAX_LEN)

\* str.lower() on the result strings the requests carry
Lower(s) ==
    CASE s = "WIN" -> "win"
      [] s = "Win" -> "win"
      [] s = "LOSE" -> "lose"
      [] s = "Lose" -> "lose"
      [] OTHER -> s

(* ------------------------------ numbers ------------------------------- *)

\* round(x, 2): to the nearest multiple of 10 thousandths, ties to even
Round2(x) ==
    LET r == x % 10
        lo == x - r
    IN  IF r < 5 THEN lo
        ELSE IF r > 5 THEN lo + 10
        ELSE IF (lo \div 10) % 2 = 0 THEN lo ELSE lo + 10

(* ------------------------------- clock -------------------------------- *)

\* the date of a tick
DateOf(t) ==
    LET idx == (StartDate.month - 1) + (t \div TicksPerMonth)
    IN  [year |-> StartDate.year + (idx \div 12), month |-> (idx % 12) + 1]

\* dt.strftime("%Y-%m")
_get_month_key(t) == <<DateOf(t).year, DateOf(t).month>>

\* mutant of _prev_month_key: the key of the month of t itself
_prev_month_is_current(t) == <<DateOf(t).year, DateOf(t).month>>

\* first of the month minus one day, formatted "%Y-%m"
_prev_month_key(t) ==
    LET d == DateOf(t)
    IN  IF d.month = 1 THEN <<d.year - 1, 12>> ELSE <<d.year, d.month - 1>>

(* ------------------------------ Document ------------------------------ *)

UserIds == {"alice", "bob"}

EmptyMap == [k \in {} |-> None]

\* d[k] = v
Put(d, k, v) == [x \in DOMAIN d \cup {k} |-> IF x = k THEN v ELSE d[x]]

\* the default shape of _read_db
DefaultDoc ==
    [users |-> EmptyMap,
     user_order |-> << >>,
     monthly_winners |-> EmptyMap,
     last_month_closed |-> None,
     recent_trades |-> << >>]

\* the record users.setdefault(user_id, {...}) inserts
DefaultUser ==
    [nickname |-> << >>,
     balance |-> START_BALANCE,
     last_update |-> None,
     trades |-> 0,
     wins |-> 0,
     period_start_balance |-> START_BALANCE]

\* users.setdefault(user_id, DefaultUser): a new key goes last in the dict
SetDefaultUser(db, user_id) ==
    IF user_id \in DOMAIN db.users
    THEN db
    ELSE [db EXCEPT !.users = Put(@, user_id, DefaultUser),
                    !.user_order = Append(@, user_id)]

\* mutant of PatchNickname: an empty nickname is not put on the entries
PatchNicknameIfNotEmpty(recent, user_id, nick) ==
    [i \in 1..Len(recent) |->
        IF recent[i].user_id = user_id /\ nick # << >>
        THEN [recent[i] EXCEPT !.nickname = nick]
        ELSE recent[i]]

\* for ent in recent: if ent.get("user_id") == user_id: ent["nickname"] = nick
PatchNickname(recent, user_id, nick) ==
    [i \in 1..Len(recent) |->
        IF recent[i].user_id = user_id
        THEN [recent[i] EXCEPT !.nickname = nick]
        ELSE recent[i]]

\* truth value of a str
Truthy(s) == s # << >>

\* a provided value that float() and int() raise on: neither None nor Some(v)
NotANumber == <<"not", "a number">>

\* float(v) or int(v) returns for the provided value v
Coerces(v) == Len(v) = 1

(* --------------------------- Persistent Store ------------------------- *)

AbsentFile == [state |-> "absent", doc |-> DefaultDoc]
CorruptFile == [state |-> "corrupt", doc |-> DefaultDoc]
FileOf(doc) == [state |-> "ok", doc |-> doc]

\* mutant of _read_db: a file that fails to parse is rewritten as the default
_read_db_repairs(f) ==
    IF f.state = "ok"
    THEN [db |-> f.doc, file |-> f]
    ELSE [db |-> DefaultDoc, file |-> FileOf(DefaultDoc)]

\* _read_db: the Document returned and the backing file after the read
_read_db(f) ==
    IF f.state = "absent"
    THEN [db |-> DefaultDoc, file |-> FileOf(DefaultDoc)]
    ELSE IF f.state = "ok"
    THEN [db |-> f.doc, file |-> f]
    ELSE [db |-> DefaultDoc, file |-> f]

\* an open(path, "w") truncates: until json.dump has finished the content
\* is a prefix of a JSON text, which json.load rejects
Truncated == CorruptFile

\* the steps of _write_db over fs = [file, tmp], the backing file and
\* DB_PATH + ".tmp"

\* mutant of OpenTmp: the Document is written straight over the backing file
OpenBackingFile(fs) == [fs EXCEPT !.file = Truncated]

\* line 78: open(tmp, "w")
OpenTmp(fs) == [fs EXCEPT !.tmp = Truncated]

\* line 79: json.dump(data, f) and the close of the file
DumpTmp(fs, data) == [fs EXCEPT !.tmp = FileOf(data)]

\* line 81: os.replace(tmp, DB_PATH) succeeds
Replace(fs) == [file |-> fs.tmp, tmp |-> AbsentFile]

\* line 84: open(DB_PATH, "w") of the fallback
OpenFallback(fs) == [fs EXCEPT !.file = Truncated]

\* line 85: json.dump(data, f) of the fallback
DumpFallback(fs, data) == [fs EXCEPT !.file = FileOf(data)]

\* _write_db on the path where os.replace succeeds: the backing file after it
_write_db(data) ==
    Replace(DumpTmp(OpenTmp([file |-> AbsentFile, tmp |-> AbsentFile]), data)).file

(* -------------------------- Metrics Calculator ------------------------ *)

\* mutant of InsertDesc: reverse=True is missing, the sort is ascending
InsertAsc(sorted, x) ==
    LET k == Cardinality({i \in 1..Len(sorted) : sorted[i].balance <= x.balance})
    IN  SubSeq(sorted, 1, k) \o <<x>> \o SubSeq(sorted, k + 1, Len(sorted))

\* arr.sort(key=lambda x: x[2], reverse=True) is stable: x goes after the
\* elements whose balance is >= its own
InsertDesc(sorted, x) ==
    LET k == Cardinality({i \in 1..Len(sorted) : sorted[i].balance >= x.balance})
    IN  SubSeq(sorted, 1, k) \o <<x>> \o SubSeq(sorted, k + 1, Len(sorted))

RECURSIVE SortDesc(_)
SortDesc(arr) ==
    IF arr = << >>
    THEN << >>
    ELSE InsertDesc(SortDesc(SubSeq(arr, 1, Len(arr) - 1)), arr[Len(arr)])

compute_podium_snapshot(users, user_order, top_n) ==
    LET arr == [i \in 1..Len(user_order) |->
                   [user_id |-> user_order[i],
                    nickname |-> users[user_order[i]].nickname,
                    balance |-> users[user_order[i]].balance]]
        sorted == SortDesc(arr)
        n == IF top_n < Len(sorted) THEN top_n ELSE Len(sorted)
    IN  [i \in 1..n |->
            [position |-> i,
             user_id |-> sorted[i].user_id,
             nickname |-> sorted[i].nickname,
             balance |-> Round2(sorted[i].balance)]]

(* ------------------------------ User Ledger --------------------------- *)

\* mutant of PeriodStartFallback: a failed coercion keeps the stored value
PeriodStartKeepsPrevious(v, u) ==
    IF Coerces(v) THEN Round2(v[1]) ELSE u.period_start_balance

\* lines 297-300: round(float(upd.period_start_balance), 2), START_BALANCE
\* when float() raises
PeriodStartFallback(v, u) ==
    IF Coerces(v) THEN Round2(v[1]) ELSE START_BALANCE

\* update_user, lines 260-311: the in-memory Document handed to _write_db
update_user_db(db0, user_id, upd, t) ==
    LET db == SetDefaultUser(db0, user_id)
        u0 == db.users[user_id]
        n == NormalizeNick(upd.nickname[1])
        changed_nick == IF upd.nickname # None /\ n # u0.nickname
                        THEN Some(n) ELSE None
        u1 == IF changed_nick # None THEN [u0 EXCEPT !.nickname = n] ELSE u0
        u2 == IF upd.balance # None
              THEN [u1 EXCEPT !.balance = IF Coerces(upd.balance)
                                          THEN Round2(upd.balance[1])
                                          ELSE START_BALANCE]
              ELSE u1
        u3 == IF upd.trades # None
              THEN [u2 EXCEPT !.trades = IF Coerces(upd.trades)
                                         THEN upd.trades[1] ELSE u2.trades]
              ELSE u2
        u4 == IF upd.wins # None
              THEN [u3 EXCEPT !.wins = IF Coerces(upd.wins)
                                       THEN upd.wins[1] ELSE u3.wins]
              ELSE u3
        u5 == IF upd.period_start_balance # None
              THEN [u4 EXCEPT !.period_start_balance =
                                  PeriodStartFallback(upd.period_start_balance, u4)]
              ELSE u4
        u6 == [u5 EXCEPT !.last_update = Some(t)]
        \* "if changed_nick:" is the truth value of the new nickname
        recent == IF changed_nick # None /\ Truthy(changed_nick[1])
                  THEN PatchNickname(db.recent_trades, user_id, changed_nick[1])
                  ELSE db.recent_trades
    IN  [db EXCEPT !.users[user_id] = u6, !.recent_trades = recent]

(* ------------------------------ Trade Feed ---------------------------- *)

\* res not in ("win", "lose")
InvalidResult(res) == res \notin {"win", "lose"}

\* mutant of PushTrade: the new entry goes to the tail (recent.append)
PushTradeAppend(recent, trade_entry) ==
    Prefix(recent \o <<trade_entry>>, MAX_RECENT_TRADES)

\* mutant of PushTrade: a trade without an amount is not listed
PushTradeSkipsZero(recent, trade_entry) ==
    IF trade_entry.amount = 0 THEN recent
    ELSE Prefix(<<trade_entry>> \o recent, MAX_RECENT_TRADES)

\* recent.insert(0, trade_entry); del recent[MAX_RECENT_TRADES:]
PushTrade(recent, trade_entry) ==
    Prefix(<<trade_entry>> \o recent, MAX_RECENT_TRADES)

\* mutant of ApplyAmount: the amount is added on a lose too
ApplyAmountAlwaysAdds(balance, res, amt) == Round2(balance + amt)

\* lines 383-386: balance + amt on a win, balance - amt otherwise, rounded
ApplyAmount(balance, res, amt) ==
    IF res = "win" THEN Round2(balance + amt) ELSE Round2(balance - amt)

\* record_trade, lines 337-401: whether HTTPException(400) was raised, and
\* the in-memory Document at that point or at the call of _write_db
record_trade_db(db0, user_id, tr, t) ==
    LET db == SetDefaultUser(db0, user_id)
        u0 == db.users[user_id]
        n == NormalizeNick(tr.nickname[1])
        changed == tr.nickname # None /\ n # u0.nickname
        u1 == IF changed THEN [u0 EXCEPT !.nickname = n] ELSE u0
        recent1 == IF changed
                   THEN PatchNickname(db.recent_trades, user_id, n)
                   ELSE db.recent_trades
        res == Lower(tr.result)
        u2 == [u1 EXCEPT !.trades = @ + 1]
        u3 == IF res = "win" THEN [u2 EXCEPT !.wins = @ + 1] ELSE u2
        amt == IF tr.amount # None THEN tr.amount[1] ELSE 0
        u4 == IF tr.amount # None
              THEN [u3 EXCEPT !.balance = ApplyAmount(@, res, amt)]
              ELSE u3
        u5 == [u4 EXCEPT !.last_update = Some(t)]
        trade_entry == [ts |-> t,
                        user_id |-> user_id,
                        nickname |-> u5.nickname,
                        result |-> res,
                        amount |-> Round2(amt)]
    IN  IF InvalidResult(res)
        THEN [raised |-> TRUE,
              db |-> [db EXCEPT !.users[user_id] = u1, !.recent_trades = recent1]]
        ELSE [raised |-> FALSE,
              db |-> [db EXCEPT !.users[user_id] = u5,
                                !.recent_trades = PushTrade(recent1, trade_entry)]]

\* mutant of StoreAfterTrade: the Document is written before the result is
\* validated
StoreAfterTradeAlways(rd, r) == _write_db(r.db)

\* record_trade, lines 367-403: the raise leaves the "with" block before
\* _write_db is reached; rd is what _read_db gave, r what record_trade_db gave
StoreAfterTrade(rd, r) == IF r.raised THEN rd.file ELSE _write_db(r.db)

(* --------------------------- Monthly Close Cycle ---------------------- *)

\* mutant of ResetUser: wins is not reset
ResetUserKeepsWins(u, t) ==
    [u EXCEPT !.balance = Round2(START_BALANCE),
              !.period_start_balance = Round2(START_BALANCE),
              !.trades = 0,
              !.last_update = Some(t)]

\* mutant of ResetUser: only users with trades in the period are reset
ResetUserIfTraded(u, t) ==
    IF u.trades = 0
    THEN u
    ELSE [u EXCEPT !.balance = Round2(START_BALANCE),
                   !.period_start_balance = Round2(START_BALANCE),
                   !.trades = 0,
                   !.wins = 0,
                   !.last_update = Some(t)]

\* the reset loop of post_close_month, lines 501-517
ResetUser(u, t) ==
    [u EXCEPT !.balance = Round2(START_BALANCE),
              !.period_start_balance = Round2(START_BALANCE),
              !.trades = 0,
              !.wins = 0,
              !.last_update = Some(t)]

\* mutant of AlreadyClosed: the snapshot is recomputed on every close
AlreadyClosedNever(db, prev_month) == FALSE

\* prev_month in db.get("monthly_winners", {})
AlreadyClosed(db, prev_month) == prev_month \in DOMAIN db.monthly_winners

\* post_close_month, lines 491-521: the status returned, and the in-memory
\* Document (handed to _write_db when the status is "closed")
post_close_month_db(db, t) ==
    LET prev_month == _prev_month_key(t)
        podium == compute_podium_snapshot(db.users, db.user_order, TOP_N)
    IN  IF AlreadyClosed(db, prev_month)
        THEN [status |-> "already_closed", month |-> prev_month, db |-> db]
        ELSE [status |-> "closed",
              month |-> prev_month,
              db |-> [db EXCEPT
                        !.monthly_winners =
                            Put(@, prev_month, [podium |-> podium, closed_at |-> t]),
                        !.last_month_closed = Some(_get_month_key(t)),
                        !.users = [x \in DOMAIN db.users |-> ResetUser(db.users[x], t)]]]

(* ------------------------------- queries ------------------------------ *)

\* str.lower() on the letters the nicknames here are made of
LowerChar(c) ==
    CASE c = "A" -> "a"
      [] c = "B" -> "b"
      [] c = "D" -> "d"
      [] c = "O" -> "o"
      [] OTHER -> c

LowerStr(s) == [i \in 1..Len(s) |-> LowerChar(s[i])]

\* n / d to the nearest integer, ties to even, for d > 0
RoundDiv(n, d) ==
    LET q == n \div d
        r == n % d
    IN  IF 2 * r < d THEN q
        ELSE IF 2 * r > d THEN q + 1
        ELSE IF q % 2 = 0 THEN q ELSE q + 1

\* round((n / d) * 100.0, 2) in hundredths of a percent, for d # 0; n and d
\* are counts, or stored amounts, which round(.., 2) made multiples of 10
Percent(n, d) ==
    LET k == IF n % 10 = 0 /\ d % 10 = 0 THEN 10 ELSE 1
        a == n \div k
        b == d \div k
    IN  IF b > 0 THEN RoundDiv(a * 10000, b) ELSE RoundDiv((-a) * 10000, -b)

\* compute_user_metrics: performance and win_rate in hundredths of a percent,
\* the balances in thousandths
compute_user_metrics(user_record) ==
    LET balance == user_record.balance
        start == user_record.period_start_balance
        trades == user_record.trades
        wins == user_record.wins
    IN  [performance |-> IF start = 0 THEN 0 ELSE Percent(balance - start, start),
         win_rate |-> IF trades <= 0 THEN 0 ELSE Percent(wins, trades),
         trades_this_period |-> trades,
         wins |-> wins,
         period_start_balance |-> Round2(start),
         balance |-> Round2(balance)]

\* the response of get_user, lines 230-255
get_user_response(db, user_id) ==
    IF user_id \in DOMAIN db.users
    THEN LET user == db.users[user_id]
             metrics == compute_user_metrics(user)
         IN  [user_id |-> user_id,
              nickname |-> user.nickname,
              balance |-> metrics.balance,
              performance |-> metrics.performance,
              win_rate |-> metrics.win_rate,
              trades_this_period |-> metrics.trades_this_period,
              wins |-> metrics.wins,
              period_start_balance |-> metrics.period_start_balance,
              last_update |-> user.last_update]
    ELSE [user_id |-> user_id,
          nickname |-> << >>,
          balance |-> Round2(START_BALANCE),
          performance |-> 0,
          win_rate |-> 0,
          trades_this_period |-> 0,
          wins |-> 0,
          period_start_balance |-> Round2(START_BALANCE),
          last_update |-> None]

\* the response of get_leaderboard, lines 211-224: users in dict order, a
\* stable sort by balance, the slice
get_leaderboard_response(db, limit, t) ==
    LET arr == [i \in 1..Len(db.user_order) |->
                   LET uid == db.user_order[i]
                       metrics == compute_user_metrics(db.users[uid])
                   IN  [user_id |-> uid,
                        nickname |-> db.users[uid].nickname,
                        balance |-> metrics.balance,
                        performance |-> metrics.performance,
                        win_rate |-> metrics.win_rate,
                        trades_this_period |-> metrics.trades_this_period]]
        n == IF limit > LEADERBOARD_MAX THEN LEADERBOARD_MAX
             ELSE IF limit < 0 THEN 0 ELSE limit
    IN  [leaderboard |-> Prefix(SortDesc(arr), n), timestamp |-> t]

\* parse_ts on a timestamp _now_iso wrote
parse_ts(ts) == Some(ts)

\* lower_filter = nickname.lower().strip() if nickname else None
LowerFilter(nickname) ==
    IF nickname # None /\ Truthy(nickname[1])
    THEN Some(Strip(LowerStr(nickname[1]))) ELSE None

\* cutoff = utcnow() - timedelta(minutes=minutes), when minutes is given
Cutoff(minutes, t) == IF minutes # None THEN Some(t - minutes[1]) ELSE None

\* the two "continue" tests of the loop of get_live_wins, lines 457-463
Passes(entry, cutoff, lower_filter) ==
    /\ cutoff # None =>
           LET ts == parse_ts(entry.ts)
           IN  ts # None /\ ~(ts[1] < cutoff[1])
    /\ (lower_filter # None /\ Truthy(lower_filter[1])) =>
           LowerStr(Strip(entry.nickname)) = lower_filter[1]

\* mutant of LimitReached: the loop stops one entry late
LimitExceeded(filtered, limit) == Len(filtered) > limit

\* line 465: if len(filtered) >= limit: break
LimitReached(filtered, limit) == Len(filtered) >= limit

\* the loop of get_live_wins from entry i on
RECURSIVE ScanRecent(_, _, _, _, _, _)
ScanRecent(recent, i, filtered, limit, cutoff, lower_filter) ==
    IF i > Len(recent) THEN filtered
    ELSE IF ~Passes(recent[i], cutoff, lower_filter)
    THEN ScanRecent(recent, i + 1, filtered, limit, cutoff, lower_filter)
    ELSE LET f == Append(filtered, recent[i])
         IN  IF LimitReached(f, limit) THEN f
             ELSE ScanRecent(recent, i + 1, f, limit, cutoff, lower_filter)

\* the entries get_live_wins returns for limit > 0, lines 429-464
get_live_wins_response(db, limit, minutes, nickname, t) ==
    LET lim == IF limit < LIVE_LIMIT_MAX THEN limit ELSE LIVE_LIMIT_MAX
    IN  [recent_trades |-> ScanRecent(db.recent_trades, 1, << >>, lim,
                                      Cutoff(minutes, t), LowerFilter(nickname)),
         timestamp |-> t]

\* sorted(mw.keys())[-1]: the keys are "%Y-%m" strings
LatestKey(mw) ==
    CHOOSE k \in DOMAIN mw :
        \A j \in DOMAIN mw : j[1] < k[1] \/ (j[1] = k[1] /\ j[2] <= k[2])

\* the response of get_latest_winners, lines 534-539
get_latest_winners_response(db) ==
    LET mw == db.monthly_winners
    IN  IF DOMAIN mw = {}
        THEN [latest |-> None, winners |-> << >>, monthly_winners |-> mw]
        ELSE [latest |-> Some(LatestKey(mw)), winners |-> mw[LatestKey(mw)],
              monthly_winners |-> mw]

\* what a handler that answers no query leaves in reply
NoReply == [query |-> "none", args |-> << >>, status |-> "", body |-> << >>]

(* ------------------------------- requests ----------------------------- *)

\* a request body: the fields of UserUpdate and of TradeRecord
Body(nickname, balance, trades, wins, psb, result, amount) ==
    [nickname |-> nickname, balance |-> balance, trades |-> trades,
     wins |-> wins, period_start_balance |-> psb,
     result |-> result, amount |-> amount]

NoBody == Body(None, None, None, None, None, "", None)

\* UserUpdate(nickname, balance, trades, wins, period_start_balance)
UserUpdate(nickname, balance, trades, wins, psb) ==
    Body(nickname, balance, trades, wins, psb, "", None)

\* TradeRecord(result, amount, nickname)
TradeRecord(result, amount, nickname) ==
    Body(nickname, None, None, None, None, result, amount)

NickAl == <<" ", "A", "l", " ">>
NickBo == <<"B", "o">>
NickBlank == <<" ">>

UpdateBodies ==
    { UserUpdate(Some(NickAl), Some(6000000), None, None, None),
      UserUpdate(Some(NickBlank), None, None, None, None),
      UserUpdate(None, Some(4000004), Some(1), Some(2), Some(0)) }

TradeBodies ==
    { TradeRecord("win", Some(100000), None),
      TradeRecord("lose", Some(50000), None),
      TradeRecord("WIN", None, Some(NickBo)),
      TradeRecord("lose", Some(4), Some(<< >>)),
      TradeRecord("draw", Some(100000), Some(NickAl)) }

(* ------------------------------- state -------------------------------- *)

VARIABLES
    file,         \* the backing file data/leaderboard.json
    now,          \* datetime.utcnow(), in ticks
    last,         \* the request served last and its outcome
    nreq,         \* number of requests served
    tradeLog,     \* history: the trades recorded so far, oldest first
    periodStart,  \* history: Len(tradeLog) at the last successful close
    pure,         \* history: users whose record only record_trade has changed
                  \* since its creation or the last successful close
    countersSet,  \* history: some update_user has set trades or wins
    tmp,          \* the file DB_PATH + ".tmp"
    lock,         \* _lock is held
    pc,           \* where each request thread is in its handler
    req,          \* the request each thread is serving
    mem,          \* the Document each thread has loaded (db)
    serial,       \* history: the committed requests applied one at a time
    crashes,      \* number of times the process was killed and restarted
    reply         \* the response to the query served last

Threads == {"t1", "t2"}

threadVars == <<tmp, lock, pc, req, mem, serial, crashes>>

vars == <<file, now, last, nreq, tradeLog, periodStart, pure, countersSet,
          tmp, lock, pc, req, mem, serial, crashes, reply>>

NoRequest == [op |-> "none", user_id |-> "", body |-> NoBody, status |-> "",
              at |-> 0, seen |-> 0]

\* no request is being served
Quiet ==
    /\ tmp = AbsentFile
    /\ lock = FALSE
    /\ pc = [t \in Threads |-> "idle"]
    /\ req = [t \in Threads |-> NoRequest]
    /\ mem = [t \in Threads |-> DefaultDoc]
    /\ serial = DefaultDoc
    /\ crashes = 0

Init ==
    /\ file = AbsentFile
    /\ now = 0
    /\ last = [op |-> "none", user_id |-> "", body |-> NoBody, status |-> ""]
    /\ nreq = 0
    /\ tradeLog = << >>
    /\ periodStart = 0
    /\ pure = {}
    /\ countersSet = FALSE
    /\ reply = NoReply
    /\ Quiet

\* the clock advances between requests
Tick ==
    /\ now < MaxTime
    /\ now' = now + 1
    /\ UNCHANGED <<file, last, nreq, tradeLog, periodStart, pure, countersSet,
                   reply>>
    /\ UNCHANGED threadVars

\* mutant of get_user: the fetch creates the record it did not find
get_user_creates ==
    \E user_id \in UserIds :
        /\ nreq < MaxOps
        /\ file' = _write_db(SetDefaultUser(_read_db(file).db, user_id))
        /\ last' = [op |-> "get_user", user_id |-> user_id, body |-> NoBody,
                    status |-> "ok"]
        /\ reply' = [query |-> "get_user", args |-> [user_id |-> user_id],
                     status |-> "ok",
                     body |-> get_user_response(_read_db(file).db, user_id)]
        /\ nreq' = nreq + 1
        /\ UNCHANGED <<now, tradeLog, periodStart, pure, countersSet>>
        /\ UNCHANGED threadVars

\* GET /api/user/{user_id}: _read_db under the lock, nothing written back
get_user ==
    \E user_id \in UserIds :
        /\ nreq < MaxOps
        /\ file' = _read_db(file).file
        /\ last' = [op |-> "get_user", user_id |-> user_id, body |-> NoBody,
                    status |-> "ok"]
        /\ reply' = [query |-> "get_user", args |-> [user_id |-> user_id],
                     status |-> "ok",
                     body |-> get_user_response(_read_db(file).db, user_id)]
        /\ nreq' = nreq + 1
        /\ UNCHANGED <<now, tradeLog, periodStart, pure, countersSet>>
        /\ UNCHANGED threadVars

\* POST /api/user/{user_id}
update_user ==
    \E user_id \in UserIds, upd \in UpdateBodies :
        /\ nreq < MaxOps
        /\ LET db == _read_db(file).db
           IN  file' = _write_db(update_user_db(db, user_id, upd, now))
        /\ last' = [op |-> "update_user", user_id |-> user_id, body |-> upd,
                    status |-> "ok"]
        /\ nreq' = nreq + 1
        /\ reply' = NoReply
        /\ pure' = pure \ {user_id}
        /\ countersSet' = (countersSet \/ upd.trades # None \/ upd.wins # None)
        /\ UNCHANGED <<now, tradeLog, periodStart>>
        /\ UNCHANGED threadVars

\* POST /api/user/{user_id}/trade
record_trade ==
    \E user_id \in UserIds, tr \in TradeBodies :
        /\ nreq < MaxOps
        /\ LET rd == _read_db(file)
               r == record_trade_db(rd.db, user_id, tr, now)
           IN  /\ file' = StoreAfterTrade(rd, r)
               /\ IF r.raised
                  THEN /\ last' = [op |-> "record_trade", user_id |-> user_id,
                                   body |-> tr, status |-> "400"]
                       /\ UNCHANGED <<tradeLog, pure>>
                  ELSE /\ last' = [op |-> "record_trade", user_id |-> user_id,
                                   body |-> tr, status |-> "ok"]
                       /\ tradeLog' = Append(tradeLog,
                                             [ts |-> now, user_id |-> user_id,
                                              result |-> Lower(tr.result),
                                              amount |-> tr.amount])
                       /\ pure' = IF user_id \in DOMAIN rd.db.users
                                  THEN pure ELSE pure \cup {user_id}
        /\ nreq' = nreq + 1
        /\ reply' = NoReply
        /\ UNCHANGED <<now, periodStart, countersSet>>
        /\ UNCHANGED threadVars

\* POST /api/close_month
post_close_month ==
    /\ nreq < MaxOps
    /\ LET rd == _read_db(file)
           r == post_close_month_db(rd.db, now)
       IN  IF r.status = "already_closed"
           THEN /\ file' = rd.file
                /\ UNCHANGED <<periodStart, pure>>
           ELSE /\ file' = _write_db(r.db)
                /\ periodStart' = Len(tradeLog)
                /\ pure' = DOMAIN r.db.users
    /\ last' = [op |-> "close_month", user_id |-> "", body |-> NoBody,
                status |-> post_close_month_db(_read_db(file).db, now).status]
    /\ nreq' = nreq + 1
    /\ reply' = NoReply
    /\ UNCHANGED <<now, tradeLog, countersSet>>
    /\ UNCHANGED threadVars

Next ==
    \/ Tick
    \/ get_user
    \/ update_user
    \/ record_trade
    \/ post_close_month

Spec == Init /\ [][Next]_vars

(* --------------------------- request threads -------------------------- *)

\* number of process restarts in one behaviour
MaxCrashes == 1
\* number of requests the threads serve in one behaviour
ConcOps == 2

\* the requests the threads serve
ConcRequests ==
    { [op |-> "record_trade", user_id |-> "alice",
       body |-> TradeRecord("win", Some(100000), None)],
      [op |-> "record_trade", user_id |-> "alice",
       body |-> TradeRecord("draw", None, Some(NickBo))],
      [op |-> "update_user", user_id |-> "alice",
       body |-> UserUpdate(Some(NickAl), Some(6000000), None, None, None)],
      [op |-> "close_month", user_id |-> "", body |-> NoBody],
      [op |-> "get_user", user_id |-> "alice", body |-> NoBody] }

\* the body of a handler's "with _lock:" block after _read_db: the status it
\* answers, the in-memory Document, and whether it goes on to _write_db
Handle(op, user_id, body, db, t) ==
    CASE op = "update_user" ->
            [status |-> "ok", db |-> update_user_db(db, user_id, body, t),
             write |-> TRUE]
      [] op = "record_trade" ->
            LET r == record_trade_db(db, user_id, body, t)
            IN  [status |-> IF r.raised THEN "400" ELSE "ok", db |-> r.db,
                 write |-> ~r.raised]
      [] op = "close_month" ->
            LET r == post_close_month_db(db, t)
            IN  [status |-> r.status, db |-> r.db, write |-> r.status = "closed"]
      [] OTHER -> [status |-> "ok", db |-> db, write |-> FALSE]

\* mutant of LockFree: the handler does not wait for the lock
LockIgnored == TRUE

\* _lock can be acquired
LockFree == ~lock

\* inside a "with _lock:" block
Critical == {"read", "create", "mutate", "open_tmp", "dump_tmp", "replace",
             "open_fallback", "dump_fallback", "release"}

\* a request arrives and is given to a thread of the pool
Start(t) ==
    /\ pc[t] = "idle"
    /\ nreq + Cardinality({x \in Threads : pc[x] # "idle"}) < ConcOps
    /\ \E r \in ConcRequests :
           req' = [req EXCEPT ![t] = [op |-> r.op, user_id |-> r.user_id,
                                      body |-> r.body, status |-> "",
                                      at |-> 0, seen |-> nreq]]
    /\ pc' = [pc EXCEPT ![t] = "acquire"]
    /\ UNCHANGED <<file, now, last, nreq, tradeLog, periodStart, pure,
                   countersSet, tmp, lock, mem, serial, crashes, reply>>

\* with _lock:
Acquire(t) ==
    /\ pc[t] = "acquire"
    /\ LockFree
    /\ lock' = TRUE
    /\ pc' = [pc EXCEPT ![t] = "read"]
    /\ UNCHANGED <<file, now, last, nreq, tradeLog, periodStart, pure,
                   countersSet, tmp, req, mem, serial, crashes, reply>>

\* db = _read_db(); when there is no backing file, line 60 opens it first
Read(t) ==
    /\ pc[t] = "read"
    /\ IF file.state = "absent"
       THEN /\ file' = Truncated
            /\ pc' = [pc EXCEPT ![t] = "create"]
            /\ UNCHANGED mem
       ELSE /\ mem' = [mem EXCEPT ![t] = _read_db(file).db]
            /\ pc' = [pc EXCEPT ![t] =
                          IF req[t].op = "get_user" THEN "release" ELSE "mutate"]
            /\ UNCHANGED file
    /\ UNCHANGED <<now, last, nreq, tradeLog, periodStart, pure, countersSet,
                   tmp, lock, req, serial, crashes, reply>>

\* line 61: json.dump(default, f) into the new backing file; return default
Create(t) ==
    /\ pc[t] = "create"
    /\ file' = FileOf(DefaultDoc)
    /\ mem' = [mem EXCEPT ![t] = DefaultDoc]
    /\ pc' = [pc EXCEPT ![t] =
                  IF req[t].op = "get_user" THEN "release" ELSE "mutate"]
    /\ UNCHANGED <<now, last, nreq, tradeLog, periodStart, pure, countersSet,
                   tmp, lock, req, serial, crashes, reply>>

\* the handler's work on db up to _write_db, its raise or its early return
Mutate(t) ==
    /\ pc[t] = "mutate"
    /\ LET h == Handle(req[t].op, req[t].user_id, req[t].body, mem[t], now)
       IN  /\ mem' = [mem EXCEPT ![t] = h.db]
           /\ req' = [req EXCEPT ![t].status = h.status, ![t].at = now]
           /\ pc' = [pc EXCEPT ![t] = IF h.write THEN "open_tmp" ELSE "release"]
    /\ UNCHANGED <<file, now, last, nreq, tradeLog, periodStart, pure,
                   countersSet, tmp, lock, serial, crashes, reply>>

\* the history of a request whose Document reaches the backing file
Commit(t) ==
    LET r == req[t]
    IN  /\ serial' = Handle(r.op, r.user_id, r.body, serial, r.at).db
        /\ tradeLog' = IF r.op = "record_trade"
                       THEN Append(tradeLog,
                                   [ts |-> r.at, user_id |-> r.user_id,
                                    result |-> Lower(r.body.result),
                                    amount |-> r.body.amount])
                       ELSE tradeLog
        /\ periodStart' = IF r.op = "close_month" THEN Len(tradeLog)
                          ELSE periodStart
        /\ pure' = CASE r.op = "close_month" -> DOMAIN mem[t].users
                      [] r.op = "update_user" -> pure \ {r.user_id}
                      [] OTHER -> IF r.user_id \in DOMAIN serial.users
                                  THEN pure ELSE pure \cup {r.user_id}
        /\ countersSet' = (countersSet \/ r.body.trades # None
                                        \/ r.body.wins # None)

\* _write_db, line 78
WriteOpenTmp(t) ==
    /\ pc[t] = "open_tmp"
    /\ LET fs == OpenTmp([file |-> file, tmp |-> tmp])
       IN  file' = fs.file /\ tmp' = fs.tmp
    /\ pc' = [pc EXCEPT ![t] = "dump_tmp"]
    /\ UNCHANGED <<now, last, nreq, tradeLog, periodStart, pure, countersSet,
                   lock, req, mem, serial, crashes, reply>>

\* _write_db, line 79
WriteDumpTmp(t) ==
    /\ pc[t] = "dump_tmp"
    /\ LET fs == DumpTmp([file |-> file, tmp |-> tmp], mem[t])
       IN  file' = fs.file /\ tmp' = fs.tmp
    /\ pc' = [pc EXCEPT ![t] = "replace"]
    /\ UNCHANGED <<now, last, nreq, tradeLog, periodStart, pure, countersSet,
                   lock, req, mem, serial, crashes, reply>>

\* _write_db, line 81: os.replace succeeds
WriteReplace(t) ==
    /\ pc[t] = "replace"
    /\ LET fs == Replace([file |-> file, tmp |-> tmp])
       IN  file' = fs.file /\ tmp' = fs.tmp
    /\ Commit(t)
    /\ pc' = [pc EXCEPT ![t] = "release"]
    /\ UNCHANGED <<now, last, nreq, lock, req, mem, crashes, reply>>

\* _write_db, lines 82-84: os.replace raises, the fallback opens DB_PATH
WriteOpenFallback(t) ==
    /\ pc[t] = "replace"
    /\ LET fs == OpenFallback([file |-> file, tmp |-> tmp])
       IN  file' = fs.file /\ tmp' = fs.tmp
    /\ pc' = [pc EXCEPT ![t] = "dump_fallback"]
    /\ UNCHANGED <<now, last, nreq, tradeLog, periodStart, pure, countersSet,
                   lock, req, mem, serial, crashes, reply>>

\* _write_db, line 85
WriteDumpFallback(t) ==
    /\ pc[t] = "dump_fallback"
    /\ LET fs == DumpFallback([file |-> file, tmp |-> tmp], mem[t])
       IN  file' = fs.file /\ tmp' = fs.tmp
    /\ Commit(t)
    /\ pc' = [pc EXCEPT ![t] = "release"]
    /\ UNCHANGED <<now, last, nreq, lock, req, mem, crashes, reply>>

\* mutant of LockAfter: an exception leaves the block without the release
LockKeptOnRaise(status) == status = "400"

\* _lock after the "with _lock:" block is left with the given status: the
\* context manager releases it on a return and on an exception alike
LockAfter(status) == FALSE

\* the end of the "with _lock:" block, by return or by exception, and the
\* response
Release(t) ==
    /\ pc[t] = "release"
    /\ lock' = LockAfter(req[t].status)
    /\ last' = [op |-> req[t].op, user_id |-> req[t].user_id,
                body |-> req[t].body,
                status |-> IF req[t].status = "" THEN "ok" ELSE req[t].status]
    /\ nreq' = nreq + 1
    /\ pc' = [pc EXCEPT ![t] = "idle"]
    /\ req' = [req EXCEPT ![t] = NoRequest]
    /\ mem' = [mem EXCEPT ![t] = DefaultDoc]
    /\ reply' = IF req[t].op = "get_user"
                THEN [query |-> "get_user", args |-> [user_id |-> req[t].user_id],
                      status |-> "ok",
                      body |-> get_user_response(mem[t], req[t].user_id)]
                ELSE NoReply
    /\ UNCHANGED <<file, now, tradeLog, periodStart, pure, countersSet, tmp,
                   serial, crashes>>

\* the process is killed and started again: the files stay as they are
Crash ==
    /\ crashes < MaxCrashes
    /\ \E t \in Threads : pc[t] # "idle"
    /\ crashes' = crashes + 1
    /\ lock' = FALSE
    /\ pc' = [t \in Threads |-> "idle"]
    /\ req' = [t \in Threads |-> NoRequest]
    /\ mem' = [t \in Threads |-> DefaultDoc]
    /\ nreq' = nreq + Cardinality({t \in Threads : pc[t] # "idle"})
    /\ serial' = _read_db(file).db
    /\ UNCHANGED <<file, now, last, tradeLog, periodStart, pure, countersSet,
                   tmp, reply>>

ConcNext ==
    \/ Tick
    \/ Crash
    \/ \E t \in Threads :
           \/ Start(t)
           \/ Acquire(t)
           \/ Read(t)
           \/ Create(t)
           \/ Mutate(t)
           \/ WriteOpenTmp(t)
           \/ WriteDumpTmp(t)
           \/ WriteReplace(t)
           \/ WriteOpenFallback(t)
           \/ WriteDumpFallback(t)
           \/ Release(t)

ConcSpec == Init /\ [][ConcNext]_vars

\* the steps of a request that has been handed to thread t
Work(t) ==
    \/ Acquire(t)
    \/ Read(t)
    \/ Create(t)
    \/ Mutate(t)
    \/ WriteOpenTmp(t)
    \/ WriteDumpTmp(t)
    \/ WriteReplace(t)
    \/ WriteOpenFallback(t)
    \/ WriteDumpFallback(t)
    \/ Release(t)

\* the process stays up; the requests arrive within one tick of the clock
LiveNext == \E t \in Threads : Start(t) \/ Work(t)

\* every thread that can take a step is eventually scheduled
LiveSpec ==
    /\ Init
    /\ [][LiveNext]_vars
    /\ \A t \in Threads : WF_vars(Work(t))

(* ------------------- the close over three or four users -------------- *)

\* requests served from a Document of PodiumInit
PodiumOps == 1

PodiumOrder == <<"alice", "bob", "carol", "dave">>
PodiumNicks == <<NormalizeNick(NickAl), NickBo, << >>, <<"D", "i">>>>
PodiumBalances == {4000000, 5000000, 6000000}

\* the Document after update_user(user, nickname, balance) for the first n
\* users of PodiumOrder, in that order, at tick 0
PodiumDoc(n, bal) ==
    [DefaultDoc EXCEPT
        !.users = [u \in {PodiumOrder[i] : i \in 1..n} |->
                      LET i == CHOOSE j \in 1..n : PodiumOrder[j] = u
                      IN  [DefaultUser EXCEPT !.nickname = PodiumNicks[i],
                                              !.balance = bal[i],
                                              !.last_update = Some(0)]],
        !.user_order = SubSeq(PodiumOrder, 1, n)]

PodiumInit ==
    /\ \E n \in {3, 4} : \E bal \in [1..n -> PodiumBalances] :
           file = FileOf(PodiumDoc(n, bal))
    /\ now = 0
    /\ last = [op |-> "none", user_id |-> "", body |-> NoBody, status |-> ""]
    /\ nreq = MaxOps - PodiumOps
    /\ tradeLog = << >>
    /\ periodStart = 0
    /\ pure = {}
    /\ countersSet = FALSE
    /\ reply = NoReply
    /\ Quiet

PodiumSpec == PodiumInit /\ [][Next]_vars

(* ------------------ a backing file that fails to parse --------------- *)

\* requests served from the unparseable backing file
CorruptOps == 2

\* DB_PATH exists and json.load raises on it (a torn write, or an edit by hand)
CorruptInit ==
    /\ file = CorruptFile
    /\ now = 0
    /\ last = [op |-> "none", user_id |-> "", body |-> NoBody, status |-> ""]
    /\ nreq = MaxOps - CorruptOps
    /\ tradeLog = << >>
    /\ periodStart = 0
    /\ pure = {}
    /\ countersSet = FALSE
    /\ reply = NoReply
    /\ Quiet

CorruptSpec == CorruptInit /\ [][Next]_vars

(* ------------------- request bodies off the usual path --------------- *)

\* requests served in a behaviour of EdgeSpec
EdgeOps == 2

\* 42 characters, the 40th a blank
NickLong == [i \in 1..42 |-> IF i = 40 THEN " " ELSE "a"]

EdgeUpdateBodies ==
    { UserUpdate(Some(NickLong), None, None, None, None),
      UserUpdate(None, NotANumber, NotANumber, NotANumber, NotANumber) }

EdgeTradeBodies ==
    { TradeRecord("win", Some(-50000), None),
      TradeRecord("lose", None, Some(NickLong)) }

EdgeInit ==
    /\ file = AbsentFile
    /\ now = 0
    /\ last = [op |-> "none", user_id |-> "", body |-> NoBody, status |-> ""]
    /\ nreq = MaxOps - EdgeOps
    /\ tradeLog = << >>
    /\ periodStart = 0
    /\ pure = {}
    /\ countersSet = FALSE
    /\ reply = NoReply
    /\ Quiet

\* POST /api/user/{user_id} with a body of EdgeUpdateBodies
update_user_edge ==
    \E user_id \in UserIds, upd \in EdgeUpdateBodies :
        /\ nreq < MaxOps
        /\ LET db == _read_db(file).db
           IN  file' = _write_db(update_user_db(db, user_id, upd, now))
        /\ last' = [op |-> "update_user", user_id |-> user_id, body |-> upd,
                    status |-> "ok"]
        /\ nreq' = nreq + 1
        /\ reply' = NoReply
        /\ pure' = pure \ {user_id}
        /\ countersSet' = (countersSet \/ Coerces(upd.trades) \/ Coerces(upd.wins))
        /\ UNCHANGED <<now, tradeLog, periodStart>>
        /\ UNCHANGED threadVars

\* POST /api/user/{user_id}/trade with a body of EdgeTradeBodies
record_trade_edge ==
    \E user_id \in UserIds, tr \in EdgeTradeBodies :
        /\ nreq < MaxOps
        /\ LET rd == _read_db(file)
               r == record_trade_db(rd.db, user_id, tr, now)
           IN  /\ ~r.raised
               /\ file' = StoreAfterTrade(rd, r)
               /\ last' = [op |-> "record_trade", user_id |-> user_id,
                           body |-> tr, status |-> "ok"]
               /\ tradeLog' = Append(tradeLog,
                                     [ts |-> now, user_id |-> user_id,
                                      result |-> Lower(tr.result),
                                      amount |-> tr.amount])
               /\ pure' = IF user_id \in DOMAIN rd.db.users
                          THEN pure ELSE pure \cup {user_id}
        /\ nreq' = nreq + 1
        /\ reply' = NoReply
        /\ UNCHANGED <<now, periodStart, countersSet>>
        /\ UNCHANGED threadVars

EdgeNext ==
    \/ Next
    \/ update_user_edge
    \/ record_trade_edge

EdgeSpec == EdgeInit /\ [][EdgeNext]_vars

(* ------------------- queries over a Document with trades -------------- *)

\* requests served from a Document of QueryInit
QueryOps == 1

NickLowerBo == <<"b", "o">>

\* the trades that build the Documents of QueryInit
QueryTrades ==
    { [user_id |-> "alice", body |-> TradeRecord("WIN", None, Some(NickBo))],
      [user_id |-> "bob", body |-> TradeRecord("lose", Some(4), Some(<< >>))],
      [user_id |-> "bob",
       body |-> TradeRecord("win", Some(100000), Some(NickLowerBo))] }

\* the Document after record_trade r1 at tick t1, record_trade r2 at tick t2
\* and, when closed, close_month at tick t2
QueryDoc(r1, t1, r2, t2, closed) ==
    LET d1 == record_trade_db(DefaultDoc, r1.user_id, r1.body, t1).db
        d2 == record_trade_db(d1, r2.user_id, r2.body, t2).db
    IN  IF closed THEN post_close_month_db(d2, t2).db ELSE d2

QueryInit ==
    /\ \E r1 \in QueryTrades, r2 \in QueryTrades, closed \in BOOLEAN :
       \E t1 \in 0..MaxTime, t2 \in 0..MaxTime :
           /\ t1 <= t2
           /\ file = FileOf(QueryDoc(r1, t1, r2, t2, closed))
           /\ now = t2
           /\ tradeLog = <<[ts |-> t1, user_id |-> r1.user_id,
                            result |-> Lower(r1.body.result),
                            amount |-> r1.body.amount],
                           [ts |-> t2, user_id |-> r2.user_id,
                            result |-> Lower(r2.body.result),
                            amount |-> r2.body.amount]>>
           /\ periodStart = IF closed THEN 2 ELSE 0
           /\ pure = {r1.user_id, r2.user_id}
    /\ last = [op |-> "none", user_id |-> "", body |-> NoBody, status |-> ""]
    /\ nreq = MaxOps - QueryOps
    /\ countersSet = FALSE
    /\ reply = NoReply
    /\ Quiet

\* the query strings
LeaderboardLimits == {-1, 1, 100}
LiveLimits == {0, 1, 600}
LiveMinutes == {None, Some(0), Some(1)}
LiveNicknames == {None, Some(<<" ", "b", "O">>), Some(NickBlank)}
WinnerMonths == {_prev_month_key(0), _get_month_key(MaxTime)}

\* GET /api/leaderboard
get_leaderboard ==
    \E limit \in LeaderboardLimits :
        /\ nreq < MaxOps
        /\ file' = _read_db(file).file
        /\ last' = [op |-> "get_leaderboard", user_id |-> "", body |-> NoBody,
                    status |-> "ok"]
        /\ reply' = [query |-> "get_leaderboard", args |-> [limit |-> limit],
                     status |-> "ok",
                     body |-> get_leaderboard_response(_read_db(file).db, limit,
                                                       now)]
        /\ nreq' = nreq + 1
        /\ UNCHANGED <<now, tradeLog, periodStart, pure, countersSet>>
        /\ UNCHANGED threadVars

\* GET /api/live-wins
get_live_wins ==
    \E limit \in LiveLimits, minutes \in LiveMinutes, nickname \in LiveNicknames :
        LET args == [limit |-> limit, minutes |-> minutes, nickname |-> nickname]
        IN  /\ nreq < MaxOps
            /\ IF limit <= 0
               THEN /\ UNCHANGED file
                    /\ last' = [op |-> "get_live_wins", user_id |-> "",
                                body |-> NoBody, status |-> "400"]
                    /\ reply' = [query |-> "get_live_wins", args |-> args,
                                 status |-> "400", body |-> << >>]
               ELSE /\ file' = _read_db(file).file
                    /\ last' = [op |-> "get_live_wins", user_id |-> "",
                                body |-> NoBody, status |-> "ok"]
                    /\ reply' = [query |-> "get_live_wins", args |-> args,
                                 status |-> "ok",
                                 body |-> get_live_wins_response(
                                              _read_db(file).db, limit, minutes,
                                              nickname, now)]
            /\ nreq' = nreq + 1
            /\ UNCHANGED <<now, tradeLog, periodStart, pure, countersSet>>
            /\ UNCHANGED threadVars

\* GET /api/winners/{month}
get_winners ==
    \E month \in WinnerMonths :
        LET mw == _read_db(file).db.monthly_winners
            status == IF month \in DOMAIN mw THEN "ok" ELSE "404"
        IN  /\ nreq < MaxOps
            /\ file' = _read_db(file).file
            /\ last' = [op |-> "get_winners", user_id |-> "", body |-> NoBody,
                        status |-> status]
            /\ reply' = [query |-> "get_winners", args |-> [month |-> month],
                         status |-> status,
                         body |-> IF month \in DOMAIN mw
                                  THEN [month |-> month, winners |-> mw[month]]
                                  ELSE << >>]
            /\ nreq' = nreq + 1
            /\ UNCHANGED <<now, tradeLog, periodStart, pure, countersSet>>
            /\ UNCHANGED threadVars

\* GET /api/winners
get_latest_winners ==
    /\ nreq < MaxOps
    /\ file' = _read_db(file).file
    /\ last' = [op |-> "get_latest_winners", user_id |-> "", body |-> NoBody,
                status |-> "ok"]
    /\ reply' = [query |-> "get_latest_winners", args |-> << >>, status |-> "ok",
                 body |-> get_latest_winners_response(_read_db(file).db)]
    /\ nreq' = nreq + 1
    /\ UNCHANGED <<now, tradeLog, periodStart, pure, countersSet>>
    /\ UNCHANGED threadVars

QueryNext ==
    \/ Next
    \/ get_leaderboard
    \/ get_live_wins
    \/ get_winners
    \/ get_latest_winners

QuerySpec == QueryInit /\ [][QueryNext]_vars

(* ------------------------------- claims ------------------------------- *)

\* the Document the store holds: what load returns
Doc == _read_db(file).db

\* the step serves a request
Served == nreq' # nreq

Min(a, b) == IF a < b THEN a ELSE b

\* the result strings that are "win" or "lose" up to case
WinOrLose == {"win", "Win", "WIN", "lose", "Lose", "LOSE"}

\* the nickname stored for a user, "" when it has no record
StoredNick(doc, user_id) ==
    IF user_id \in DOMAIN doc.users THEN doc.users[user_id].nickname ELSE << >>

\* the indices of a user's trades of the current period in tradeLog
PeriodTrades(user_id) ==
    {i \in (periodStart + 1)..Len(tradeLog) : tradeLog[i].user_id = user_id}

\* C1: a record_trade whose result is, up to case, neither "win" nor "lose"
\* fails with status 400 and leaves the persisted Document as it was: the
\* Document load returns is the same, and an existing backing file is untouched.
C1_RejectedTradeKeepsDocument ==
    [][(Served /\ last'.op = "record_trade" /\ last'.body.result \notin WinOrLose)
         => /\ last'.status = "400"
            /\ _read_db(file').db = Doc
            /\ (file.state = "ok" => file' = file)]_vars

\* C1 witness: a rejected trade that carried a nickname differing from the
\* stored one, for a user with a record and an entry in the feed.
C1_Witness ==
    /\ last.op = "record_trade" /\ last.status = "400"
    /\ last.body.nickname # None
    /\ last.user_id \in DOMAIN Doc.users
    /\ NormalizeNick(last.body.nickname[1]) # Doc.users[last.user_id].nickname
    /\ \E i \in 1..Len(Doc.recent_trades) :
           Doc.recent_trades[i].user_id = last.user_id

\* C2: while no update_user has set trades or wins, every user record has
\* 0 <= wins <= trades, wins is the number of its "win" trades recorded since
\* the last successful close and trades the number of its "win" plus "lose"
\* trades recorded since then.
C2_CountersMatchTrades ==
    ~countersSet =>
        \A u \in DOMAIN Doc.users :
            LET W == Cardinality({i \in PeriodTrades(u) : tradeLog[i].result = "win"})
                L == Cardinality({i \in PeriodTrades(u) : tradeLog[i].result = "lose"})
            IN  /\ 0 <= Doc.users[u].wins
                /\ Doc.users[u].wins <= Doc.users[u].trades
                /\ Doc.users[u].wins = W
                /\ Doc.users[u].trades = W + L

\* C2 witness: a user with a lose trade after a close that followed a win.
C2_Witness ==
    /\ ~countersSet
    /\ periodStart > 0
    /\ \E u \in DOMAIN Doc.users :
           /\ Doc.users[u].trades = 1 /\ Doc.users[u].wins = 0
           /\ \E i \in 1..periodStart :
                  tradeLog[i].user_id = u /\ tradeLog[i].result = "win"

\* C3: once a Podium Snapshot exists for a month key no step changes it, and a
\* close_month served while that key is the previous month returns
\* "already_closed" and leaves the whole Document unchanged.
C3_CloseIdempotent ==
    [][/\ \A k \in DOMAIN Doc.monthly_winners :
              /\ k \in DOMAIN Doc'.monthly_winners
              /\ Doc'.monthly_winners[k] = Doc.monthly_winners[k]
       /\ (Served /\ last'.op = "close_month"
              /\ _prev_month_key(now) \in DOMAIN Doc.monthly_winners)
            => (last'.status = "already_closed" /\ file' = file)]_vars

\* C3 witness: a repeated close, with a trade recorded since the first one.
C3_Witness ==
    /\ last.op = "close_month" /\ last.status = "already_closed"
    /\ Len(tradeLog) > periodStart

\* C4: an update_user whose normalized nickname differs from the stored one
\* stores it and puts it on every feed entry of that user, the empty string
\* included; the entries of other users are unchanged.
C4_UpdateNicknamePropagates ==
    [][(Served /\ last'.op = "update_user" /\ last'.body.nickname # None
          /\ NormalizeNick(last'.body.nickname[1]) # StoredNick(Doc, last'.user_id))
         => LET n == NormalizeNick(last'.body.nickname[1])
                u == last'.user_id
            IN  /\ Doc'.users[u].nickname = n
                /\ Len(Doc'.recent_trades) = Len(Doc.recent_trades)
                /\ \A i \in 1..Len(Doc.recent_trades) :
                       IF Doc.recent_trades[i].user_id = u
                       THEN Doc'.recent_trades[i] =
                                [Doc.recent_trades[i] EXCEPT !.nickname = n]
                       ELSE Doc'.recent_trades[i] = Doc.recent_trades[i]]_vars

\* the trade entry record_trade builds for a recorded trade, without nickname
LoggedEntry(t) ==
    [ts |-> t.ts, user_id |-> t.user_id, result |-> t.result,
     amount |-> IF t.amount = None THEN 0 ELSE Round2(t.amount[1])]

WithoutNick(e) ==
    [ts |-> e.ts, user_id |-> e.user_id, result |-> e.result, amount |-> e.amount]

\* C5: recent_trades never exceeds the cap and, nicknames aside, is the most
\* recent min(n, cap) recorded trades, newest first.
C5_FeedIsNewestFirst ==
    LET n == Len(tradeLog)
        k == Min(n, MAX_RECENT_TRADES)
    IN  /\ Len(Doc.recent_trades) <= MAX_RECENT_TRADES
        /\ Len(Doc.recent_trades) = k
        /\ \A i \in 1..k :
               WithoutNick(Doc.recent_trades[i]) = LoggedEntry(tradeLog[n - i + 1])

\* C5 witness: more trades recorded than the cap, not all alike.
C5_Witness ==
    /\ Len(tradeLog) > MAX_RECENT_TRADES
    /\ tradeLog[1] # tradeLog[Len(tradeLog)]
    /\ Doc.recent_trades[1].ts > Doc.recent_trades[Len(Doc.recent_trades)].ts

\* C6: a thread is inside a "with _lock:" block only while the lock is held,
\* at most one is, and the persisted Document is the result of running the
\* committed requests one at a time in the order they reached the file; while
\* the process has not been restarted no trade is lost: every user's trades is
\* the number of its trades committed in the period and the feed holds
\* min(number of committed trades, cap) entries.
C6_RequestsAreSerialized ==
    /\ \A t \in Threads : pc[t] \in Critical => lock
    /\ Cardinality({t \in Threads : pc[t] \in Critical}) <= 1
    /\ file.state = "ok" => file.doc = serial
    /\ (file.state = "ok" /\ crashes = 0) =>
           /\ Len(file.doc.recent_trades) = Min(Len(tradeLog), MAX_RECENT_TRADES)
           /\ \A u \in DOMAIN file.doc.users :
                  file.doc.users[u].trades = Cardinality(PeriodTrades(u))

\* C6 witness: two trades of one user were in flight together and both are in
\* the Document: one has answered, the other, which had arrived before that
\* answer, has written and still holds the lock.
C6_Witness ==
    \E t \in Threads :
        /\ crashes = 0
        /\ pc[t] = "release"
        /\ req[t].op = "record_trade" /\ req[t].status = "ok"
        /\ req[t].seen < nreq
        /\ last.op = "record_trade" /\ last.status = "ok"
        /\ last.user_id = req[t].user_id
        /\ file.state = "ok"
        /\ file.doc.users[req[t].user_id].trades = 2
        /\ Len(tradeLog) = 2

\* C7: a close_month that returns "closed" stores under the previous-month key
\* a podium of min(3, number of users) entries, positions 1..k, distinct users,
\* each with its nickname and balance from before the reset, balances
\* non-increasing, and no user outside it richer than its last entry.
C7_PodiumIsTopThree ==
    [][(Served /\ last'.op = "close_month" /\ last'.status = "closed")
         => LET pre == Doc.users
                key == _prev_month_key(now)
                p == Doc'.monthly_winners[key].podium
                k == Len(p)
                on == {p[i].user_id : i \in 1..k}
            IN  /\ key \in DOMAIN Doc'.monthly_winners
                /\ k = Min(3, Cardinality(DOMAIN pre))
                /\ \A i \in 1..k :
                       /\ p[i].position = i
                       /\ p[i].user_id \in DOMAIN pre
                       /\ p[i].nickname = pre[p[i].user_id].nickname
                       /\ p[i].balance = pre[p[i].user_id].balance
                /\ \A i, j \in 1..k : i < j =>
                       /\ p[i].user_id # p[j].user_id
                       /\ p[i].balance >= p[j].balance
                /\ \A u \in DOMAIN pre \ on : pre[u].balance <= p[k].balance]_vars

\* C7 witness: a close over four users whose podium is not in insertion order
\* and leaves a strictly poorer user out.
C7_Witness ==
    /\ last.op = "close_month" /\ last.status = "closed"
    /\ Cardinality(DOMAIN Doc.users) = 4
    /\ \E key \in DOMAIN Doc.monthly_winners :
           LET p == Doc.monthly_winners[key].podium
           IN  /\ Len(p) = 3
               /\ p[1].user_id = "bob" /\ p[1].balance = 6000000
               /\ p[2].balance = 5000000 /\ p[3].balance = 5000000
               /\ p[1].nickname = NickBo
               /\ Doc.user_order[1] \notin {p[i].user_id : i \in 1..3}

\* C8: right after a close_month that returns "closed" every user record has
\* balance = period_start_balance = START_BALANCE, trades = 0 and wins = 0,
\* and the user identifiers and nicknames are those before the close.
C8_CloseResetsEveryUser ==
    [][(Served /\ last'.op = "close_month" /\ last'.status = "closed")
         => /\ DOMAIN Doc'.users = DOMAIN Doc.users
            /\ Doc'.user_order = Doc.user_order
            /\ \A u \in DOMAIN Doc.users :
                   /\ Doc'.users[u].balance = START_BALANCE
                   /\ Doc'.users[u].period_start_balance = START_BALANCE
                   /\ Doc'.users[u].trades = 0
                   /\ Doc'.users[u].wins = 0
                   /\ Doc'.users[u].nickname = Doc.users[u].nickname]_vars

\* C8 witness: a close has just reset two users.
C8_Witness ==
    /\ last.op = "close_month" /\ last.status = "closed"
    /\ Cardinality(DOMAIN Doc.users) = 2
    /\ \E u \in DOMAIN Doc.users : Doc.users[u].nickname # << >>

\* C10: while a thread is in _write_db and os.replace has not failed, the
\* backing file is the one the save found (a complete Document unless the
\* process was killed before), through every step of any thread and through a
\* kill of the process, until os.replace succeeds and it is the complete new
\* Document.
C10_SaveIsAtomic ==
    [][\A t \in Threads :
          pc[t] \in {"open_tmp", "dump_tmp", "replace"} =>
              /\ crashes = 0 => file.state = "ok"
              /\ CASE pc'[t] = "release" -> file' = FileOf(mem[t])
                    [] pc'[t] = "dump_fallback" -> TRUE
                    [] OTHER -> file' = file]_vars

\* C10 witness: the process was killed between the dump to the temporary file
\* and os.replace: the new Document is in the temporary file, the previous
\* one in the backing file.
C10_Witness ==
    /\ crashes = 1
    /\ \A t \in Threads : pc[t] = "idle"
    /\ file.state = "ok" /\ tmp.state = "ok"
    /\ tmp.doc # file.doc
    /\ file.doc.users # EmptyMap

\* the signed amount of a logged trade: + on a win, - on a lose, 0 if omitted
Signed(t) ==
    IF t.amount = None THEN 0
    ELSE IF t.result = "win" THEN t.amount[1] ELSE 0 - t.amount[1]

RECURSIVE SumSigned(_)
SumSigned(I) ==
    IF I = {} THEN 0
    ELSE LET i == CHOOSE x \in I : TRUE
         IN  Signed(tradeLog[i]) + SumSigned(I \ {i})

\* every amount has at most 2 decimals
TwoDecimals(I) ==
    \A i \in I : tradeLog[i].amount # None => tradeLog[i].amount[1] % 10 = 0

\* C9: a record changed only by record_trade since its creation or the last
\* successful close keeps period_start_balance 5000.0 and, with amounts of at
\* most 2 decimals, has balance 5000.0 plus its wins minus its losses.
C9_BalanceIsSumOfTrades ==
    \A u \in pure :
        /\ u \in DOMAIN Doc.users
        /\ Doc.users[u].period_start_balance = START_BALANCE
        /\ TwoDecimals(PeriodTrades(u))
             => Doc.users[u].balance = START_BALANCE + SumSigned(PeriodTrades(u))

\* C9 witness: win 100 then lose 50 from the default record: 5050.0, 2 trades,
\* 1 win.
C9_Witness ==
    \E u \in pure :
        /\ Len(tradeLog) = 2 /\ periodStart = 0
        /\ LoggedEntry(tradeLog[1]).user_id = u /\ tradeLog[2].user_id = u
        /\ tradeLog[1].result = "win" /\ tradeLog[1].amount = Some(100000)
        /\ tradeLog[2].result = "lose" /\ tradeLog[2].amount = Some(50000)
        /\ Doc.users[u].balance = 5050000
        /\ Doc.users[u].trades = 2 /\ Doc.users[u].wins = 1

\* the requests that reach _write_db
Saves(l) ==
    \/ l.op = "update_user"
    \/ l.op = "record_trade" /\ l.status = "ok"
    \/ l.op = "close_month" /\ l.status = "closed"

\* C11 as stated: every request served from a backing file that fails to parse
\* leaves that file untouched.
C11_CorruptFileUntouched ==
    [][(Served /\ file.state = "corrupt") => file' = file]_vars

\* C11: a request served from a backing file that fails to parse answers as it
\* answers on the empty default Document; a request that does not reach the
\* save leaves the corrupt file untouched, and a request that saves replaces it
\* with the Document computed from the empty default.
C11_CorruptFileReadsAsDefault ==
    [][(Served /\ file.state = "corrupt")
         => LET l == last'
                h == Handle(l.op, l.user_id, l.body, DefaultDoc, now)
            IN  /\ l.status = h.status
                /\ l.status \in {"ok", "400", "closed"}
                /\ file' = IF Saves(l) THEN FileOf(h.db) ELSE file]_vars

\* C11 witness: every request of the run was served, the last a rejected trade,
\* and the backing file still fails to parse.
C11_Witness ==
    /\ file.state = "corrupt"
    /\ nreq = MaxOps
    /\ last.op = "record_trade" /\ last.status = "400"

\* C12: every entry of recent_trades has result "win" or "lose" and an amount
\* that is not negative.
C12_FeedAmountsNonNegative ==
    \A i \in 1..Len(Doc.recent_trades) :
        /\ Doc.recent_trades[i].result \in {"win", "lose"}
        /\ Doc.recent_trades[i].amount >= 0

\* a nickname of at most 40 characters without blanks at either end
Trimmed(nick) ==
    /\ Len(nick) <= 40
    /\ nick # << >> => (nick[1] \notin Whitespace /\ nick[Len(nick)] \notin Whitespace)

\* C13: every stored nickname and every nickname of a recent_trades entry has
\* at most 40 characters and no blank at its start or its end.
C13_NicknamesAreTrimmed ==
    /\ \A u \in DOMAIN Doc.users : Trimmed(Doc.users[u].nickname)
    /\ \A i \in 1..Len(Doc.recent_trades) : Trimmed(Doc.recent_trades[i].nickname)

\* a nickname filter that is given
Given(nickname) == nickname # None

\* a nickname filter that is given and has a character that is not a blank
GivenNonBlank(nickname) == nickname # None /\ Strip(nickname[1]) # << >>

\* the entry is not older than the cutoff of a recency filter, and its
\* nickname is the filter up to case and surrounding blanks
InTime(entry, minutes, t) == minutes # None => entry.ts >= t - minutes[1]
SameNick(entry, nickname) ==
    LowerStr(Strip(entry.nickname)) = LowerStr(Strip(nickname[1]))

\* the first min(limit, 500) entries of the feed that are in time and, when
\* active says so of the nickname filter, carry its nickname
Listed(recent, args, t, active) ==
    LET Keep(e) == /\ InTime(e, args.minutes, t)
                   /\ active => SameNick(e, args.nickname)
    IN  Prefix(SelectSeq(recent, Keep), Min(args.limit, 500))

\* the step serves get_live_wins
LiveWinsServed == Served /\ last'.op = "get_live_wins"

\* C14 as stated: every nickname filter that is given is applied.
C14_LiveWinsAppliesGivenFilter ==
    [][LiveWinsServed
         => LET a == reply'.args
            IN  /\ a.limit <= 0 => reply'.status = "400"
                /\ a.limit > 0 =>
                       /\ reply'.status = "ok"
                       /\ reply'.body.recent_trades =
                              Listed(Doc.recent_trades, a, now, Given(a.nickname))
                /\ _read_db(file').db = Doc
                /\ file.state = "ok" => file' = file]_vars

\* C14: get_live_wins with limit <= 0 fails with status 400; with limit > 0 it
\* returns, in feed order, the first min(limit, 500) of the entries that are
\* not older than the cutoff when minutes is given and whose nickname is the
\* filter, up to case and surrounding blanks, when a filter with a non-blank
\* character is given; an empty or all-blank filter filters nothing. The
\* Document is unchanged.
C14_LiveWinsListsFiltered ==
    [][LiveWinsServed
         => LET a == reply'.args
            IN  /\ a.limit <= 0 => reply'.status = "400"
                /\ a.limit > 0 =>
                       /\ reply'.status = "ok"
                       /\ reply'.body.recent_trades =
                              Listed(Doc.recent_trades, a, now,
                                     GivenNonBlank(a.nickname))
                /\ _read_db(file').db = Doc
                /\ file.state = "ok" => file' = file]_vars

\* C14 witness: a query with limit 1, a cutoff and the filter " bO" answered
\* with one entry while a second entry of the feed passes both filters.
C14_Witness ==
    /\ last.op = "get_live_wins" /\ reply.status = "ok"
    /\ reply.args.limit = 1
    /\ reply.args.minutes # None
    /\ GivenNonBlank(reply.args.nickname)
    /\ Len(reply.body.recent_trades) = 1
    /\ Len(Doc.recent_trades) = 2
    /\ \A i \in 1..2 : /\ InTime(Doc.recent_trades[i], reply.args.minutes, now)
                        /\ SameNick(Doc.recent_trades[i], reply.args.nickname)
    /\ Doc.recent_trades[1].nickname # Doc.recent_trades[2].nickname

\* the record of a user before a request, the default when it has none
RecordOf(doc, user_id) ==
    IF user_id \in DOMAIN doc.users THEN doc.users[user_id] ELSE DefaultUser

\* C15: a successful record_trade without an amount leaves the user's balance
\* and period_start_balance as they were, adds 1 to trades, adds 1 to wins
\* when the result is "win" and nothing otherwise, and puts an entry with
\* amount 0 at the head of recent_trades, the earlier entries following in
\* their order.
C15_TradeWithoutAmount ==
    [][(Served /\ last'.op = "record_trade" /\ last'.status = "ok"
          /\ last'.body.amount = None)
         => LET u == last'.user_id
                pre == RecordOf(Doc, u)
                post == _read_db(file').db.users[u]
                feed == Doc.recent_trades
                feed2 == _read_db(file').db.recent_trades
                won == last'.body.result \in {"win", "Win", "WIN"}
            IN  /\ post.balance = pre.balance
                /\ post.period_start_balance = pre.period_start_balance
                /\ post.trades = pre.trades + 1
                /\ post.wins = IF won THEN pre.wins + 1 ELSE pre.wins
                /\ Len(feed2) = Min(Len(feed) + 1, MAX_RECENT_TRADES)
                /\ feed2[1].user_id = u
                /\ feed2[1].amount = 0
                /\ feed2[1].result = IF won THEN "win" ELSE "lose"
                /\ \A i \in 2..Len(feed2) :
                       WithoutNick(feed2[i]) = WithoutNick(feed[i - 1])]_vars

\* C15 witness: a "lose" without an amount for a user whose balance a trade
\* with an amount had changed.
C15_Witness ==
    /\ last.op = "record_trade" /\ last.status = "ok"
    /\ last.body.amount = None /\ last.body.result = "lose"
    /\ Len(Doc.recent_trades) = 2
    /\ Doc.recent_trades[1].user_id = Doc.recent_trades[2].user_id
    /\ Doc.recent_trades[2].amount # 0
    /\ Doc.users[last.user_id].balance # START_BALANCE
    /\ Doc.users[last.user_id].trades = 2

\* the month after the month of a key, and the order of the keys
MonthAfter(k) == IF k[2] = 12 THEN <<k[1] + 1, 1>> ELSE <<k[1], k[2] + 1>>
Later(a, b) == a[1] > b[1] \/ (a[1] = b[1] /\ a[2] > b[2])

\* last_month_closed is null exactly when monthly_winners is empty, and
\* otherwise later than every key of monthly_winners
ClosedMonthsInOrder(doc) ==
    /\ doc.last_month_closed = None <=> DOMAIN doc.monthly_winners = {}
    /\ doc.last_month_closed # None =>
           \A k \in DOMAIN doc.monthly_winners : Later(doc.last_month_closed[1], k)

\* C16: a close that answers "closed" at time t adds one key to
\* monthly_winners, the key of the month before the month of t, keeps the
\* snapshots it had, and sets last_month_closed to the key of the month of t;
\* after every step last_month_closed is null exactly when monthly_winners is
\* empty and otherwise later than every key of monthly_winners.
C16_CloseAdvancesLedger ==
    [][/\ (Served /\ last'.op = "close_month" /\ last'.status = "closed")
            => LET mw == Doc.monthly_winners
                   mw2 == _read_db(file').db.monthly_winners
                   added == DOMAIN mw2 \ DOMAIN mw
               IN  /\ Cardinality(added) = 1
                   /\ \A k \in added : MonthAfter(k) = _get_month_key(now)
                   /\ \A k \in DOMAIN mw : k \in DOMAIN mw2 /\ mw2[k] = mw[k]
                   /\ _read_db(file').db.last_month_closed
                          = Some(_get_month_key(now))
       /\ ClosedMonthsInOrder(_read_db(file').db)]_vars

\* C16 witness: two months are closed, the second at a later tick than the
\* first.
C16_Witness ==
    /\ Cardinality(DOMAIN Doc.monthly_winners) = 2
    /\ last.op = "close_month" /\ last.status = "closed"
    /\ Doc.last_month_closed = Some(_get_month_key(now))
    /\ now > 0

\* C17: a successful record_trade whose normalized nickname differs from the
\* stored one, the empty string included, stores it, puts it on every entry
\* the user already had in the feed and on the new entry, and leaves the
\* entries of other users as they were.
C17_TradeNicknamePropagates ==
    [][(Served /\ last'.op = "record_trade" /\ last'.status = "ok"
          /\ last'.body.nickname # None
          /\ NormalizeNick(last'.body.nickname[1]) # StoredNick(Doc, last'.user_id))
         => LET n == NormalizeNick(last'.body.nickname[1])
                u == last'.user_id
                feed == Doc.recent_trades
                feed2 == Doc'.recent_trades
            IN  /\ Doc'.users[u].nickname = n
                /\ Len(feed2) = Min(Len(feed) + 1, MAX_RECENT_TRADES)
                /\ feed2[1].user_id = u /\ feed2[1].nickname = n
                /\ \A i \in 2..Len(feed2) :
                       feed2[i] = IF feed[i - 1].user_id = u
                                  THEN [feed[i - 1] EXCEPT !.nickname = n]
                                  ELSE feed[i - 1]]_vars

\* C17 witness: a trade with the empty nickname by a user whose earlier entry
\* is the "WIN" without an amount, which was recorded under the nickname "Bo";
\* both entries and the record now carry the empty nickname.
C17_Witness ==
    /\ last.op = "record_trade" /\ last.status = "ok"
    /\ last.body.nickname = Some(<< >>)
    /\ Len(tradeLog) = 2
    /\ tradeLog[1].user_id = last.user_id
    /\ tradeLog[1].result = "win" /\ tradeLog[1].amount = None
    /\ Len(Doc.recent_trades) = 2
    /\ \A i \in 1..2 : /\ Doc.recent_trades[i].user_id = last.user_id
                        /\ Doc.recent_trades[i].nickname = << >>
    /\ Doc.users[last.user_id].nickname = << >>

\* a provided value on which the numeric coercion fails
Fails(v) == v # None /\ ~Coerces(v)

\* the step serves an update_user in which some coercion fails
FailedCoercionServed ==
    /\ Served /\ last'.op = "update_user"
    /\ \/ Fails(last'.body.balance) \/ Fails(last'.body.trades)
       \/ Fails(last'.body.wins) \/ Fails(last'.body.period_start_balance)

\* what C18 states of the fields other than period_start_balance
FailedCoercionKeepsGoing ==
    LET upd == last'.body
        pre == RecordOf(Doc, last'.user_id)
        post == Doc'.users[last'.user_id]
    IN  /\ last'.status = "ok"
        /\ file'.state = "ok"
        /\ post.last_update = Some(now)
        /\ Fails(upd.balance) => post.balance = START_BALANCE
        /\ Fails(upd.trades) => post.trades = pre.trades
        /\ Fails(upd.wins) => post.wins = pre.wins

ReadOnlyOps == {"get_user", "get_leaderboard", "get_live_wins", "get_winners",
                "get_latest_winners"}

\* C19: a read-only request served from a backing file that holds a Document
\* leaves the file as it is; the fetch of a user without a record answers
\* balance 5000.0, performance 0.0, win_rate 0.0 and trades_this_period 0 and
\* creates no record; no step removes a user identifier, and only a successful
\* update_user or record_trade adds one.
C19_ReadsChangeNothing ==
    [][/\ (Served /\ last'.op \in ReadOnlyOps /\ file.state = "ok") => file' = file
       /\ (Served /\ last'.op = "get_user" /\ last'.user_id \notin DOMAIN Doc.users)
            => /\ reply'.body.balance = 5000000
               /\ reply'.body.performance = 0
               /\ reply'.body.win_rate = 0
               /\ reply'.body.trades_this_period = 0
               /\ last'.user_id \notin DOMAIN Doc'.users
       /\ DOMAIN Doc.users \subseteq DOMAIN Doc'.users
       /\ DOMAIN Doc'.users # DOMAIN Doc.users
            => /\ Served
               /\ last'.op \in {"update_user", "record_trade"}
               /\ last'.status = "ok"]_vars

\* C19 witness: the fetch of a user without a record, from a Document that
\* holds the record and the trades of another user.
C19_Witness ==
    /\ file.state = "ok"
    /\ last.op = "get_user"
    /\ last.user_id \notin DOMAIN Doc.users
    /\ DOMAIN Doc.users # {}
    /\ Doc.recent_trades # << >>
    /\ reply.body.user_id = last.user_id
    /\ reply.body.balance = 5000000

\* C20: _lock is held only while some request is inside its critical
\* section, and every request that waits for _lock gets it and is answered,
\* whatever the requests before it answered.
C20_EveryRequestCompletes ==
    /\ [](lock => \E t \in Threads : pc[t] \in Critical)
    /\ \A t \in Threads : (pc[t] = "acquire") ~> (pc[t] = "idle")

\* C20 witness: a request that arrived before a rejected record_trade was
\* answered holds the lock after it.
C20_Witness ==
    /\ last.op = "record_trade" /\ last.status = "400"
    /\ \E t \in Threads : /\ pc[t] = "read"
                           /\ req[t].seen < nreq
                           /\ lock

====
